---- MODULE Spec2Model ----
(***************************************************************************)
(* A model of discord_webhook.py: the embed builder (_truncate,            *)
(* _author_string, _relevance_string, _link_block, _affiliations_block,    *)
(* _paper_to_embed), the batching generator _batched and the dispatcher    *)
(* notify_discord with its nested _post.                                   *)
(*                                                                         *)
(* A Python str is a TLA+ string (Len, \o and SubSeq act on characters), a *)
(* Python list is a sequence, a dict is a record, and an optional value is *)
(* a sequence of length 0 (None) or 1.                                     *)
(***************************************************************************)
EXTENDS Integers, Sequences, FiniteSets, TLC

VARIABLES
    pc,           \* position of the running call
    papers,       \* notify_discord's argument papers
    webhook_url,  \* notify_discord's argument webhook_url (optional str)
    embeds,       \* the local list embeds (line 127)
    chunk_no,     \* the chunks of _batched the loop of line 128 has taken
    posts,        \* every requests.post call made so far, in order
    outcomes,     \* what each of those calls did (exception or response)
    log,          \* every loguru record written so far, in order
    exc,          \* the exception that left the call, "none" when none did
    args,         \* the arguments of a helper under test
    ret           \* its optional result

vars == <<pc, papers, webhook_url, embeds, chunk_no, posts, outcomes, log, exc, args, ret>>

dispatchVars == <<papers, webhook_url, embeds, posts, outcomes, log, exc>>

-----------------------------------------------------------------------------
(* Module constants, lines 10-14.                                          *)

_MAX_EMBEDS_PER_REQUEST == 10
_MAX_TITLE == 256
_MAX_DESCRIPTION == 2048
_MAX_FIELD_VALUE == 1024
_DEFAULT_COLOR == 5793266

\* timeout=10 of requests.post (line 111) and the [:300] of line 120.
POST_TIMEOUT == 10
BODY_PREFIX == 300

-----------------------------------------------------------------------------
(* Bounds of the model.                                                    *)

MaxPapers == 23
MaxTextLen == 10
MaxLimit == 7
MaxAffiliations == 7

-----------------------------------------------------------------------------
(* Python values.                                                          *)

None == <<>>
Some(x) == <<x>>

\* bool(v) of an optional str: None and "" are falsy.
Truthy(opt) == opt # None /\ opt[1] # ""

Min(a, b) == IF a <= b THEN a ELSE b
Max(a, b) == IF a >= b THEN a ELSE b

\* A slice bound as Python clamps it: negative bounds count from the end.
SliceIndex(i, n) == IF i < 0 THEN Max(0, n + i) ELSE Min(i, n)

\* s[lo:hi] of a str or a list.
PySlice(s, lo, hi) ==
    LET a == SliceIndex(lo, Len(s))
        b == SliceIndex(hi, Len(s))
    IN  IF b <= a THEN SubSeq(s, 1, 0) ELSE SubSeq(s, a + 1, b)

\* s[:hi]
PyPrefix(s, hi) == PySlice(s, 0, hi)

RECURSIVE JoinRange(_, _, _, _)
\* sep.join(parts[lo-1:hi]), for 1 <= lo <= hi <= len(parts)
JoinRange(sep, parts, lo, hi) ==
    IF lo = hi THEN parts[lo]
    ELSE JoinRange(sep, parts, lo, (lo + hi) \div 2) \o sep
         \o JoinRange(sep, parts, (lo + hi) \div 2 + 1, hi)

\* sep.join(parts)
Join(sep, parts) ==
    IF Len(parts) = 0 THEN "" ELSE JoinRange(sep, parts, 1, Len(parts))

Digit(d) == SubSeq("0123456789", d + 1, d + 1)

RECURSIVE IntStr(_)
\* str(n) of a natural number
IntStr(n) == IF n < 10 THEN Digit(n) ELSE IntStr(n \div 10) \o Digit(n % 10)

-----------------------------------------------------------------------------
(* The embed builder.                                                      *)

\* A faulty _truncate that leaves no room for the ellipsis.
_truncate_no_reserve(text, limit) ==
    IF Len(text) <= limit THEN text
    ELSE IF limit <= 3 THEN PyPrefix(text, limit)
    ELSE PyPrefix(text, limit) \o "..."

_truncate(text, limit) ==
    IF Len(text) <= limit THEN text
    ELSE IF limit <= 3 THEN PyPrefix(text, limit)
    ELSE PyPrefix(text, limit - 3) \o "..."

\* getattr(author, "name", str(author)): an author is a record of its
\* attributes, str being its string form.
AuthorName(author) ==
    IF "name" \in DOMAIN author THEN author.name ELSE author.str

_author_string(paper) ==
    LET names == [i \in 1..Len(paper.authors) |-> AuthorName(paper.authors[i])]
        author_line == IF Len(names) > 0 THEN Join(", ", names) ELSE "Unknown"
    IN  _truncate(author_line, _MAX_FIELD_VALUE)

\* f"{score:.2f}" of a non-negative score given in thousandths whose third
\* decimal is not 5 (a tie rounds by the float's binary expansion).
Format2f(milli) ==
    LET hundredths == (milli + 5) \div 10
    IN  IntStr(hundredths \div 100) \o "."
        \o Digit((hundredths \div 10) % 10) \o Digit(hundredths % 10)

_relevance_string(paper) ==
    LET score == paper.score
    IN  IF score = None THEN "Not ranked" ELSE Format2f(score[1]) \o "/10"

_link_block(paper) ==
    LET links == << "[Abstract](https://arxiv.org/abs/" \o paper.arxiv_id \o ")",
                    "[PDF](" \o paper.pdf_url \o ")",
                    "[AlphaXiv](https://www.alphaxiv.org/overview/"
                        \o paper.arxiv_id_with_version \o ")" >>
        all == IF Truthy(paper.code_url)
               THEN Append(links, "[Code](" \o paper.code_url[1] \o ")")
               ELSE links
    IN  Join(" | ", all)

_affiliations_block(paper) ==
    IF Len(paper.affiliations) = 0 THEN None
    ELSE LET joined == Join(", ", PyPrefix(paper.affiliations, 5))
             values == IF Len(paper.affiliations) > 5
                       THEN joined \o ", ..." ELSE joined
         IN  Some(_truncate(values, _MAX_FIELD_VALUE))

\* A faulty test of line 84: `if affiliations is not None:`.
AffiliationsShownUnlessNone(affiliations) == affiliations # None

\* The `if affiliations:` of line 84.
AffiliationsShown(affiliations) == Truthy(affiliations)

_paper_to_embed(paper) ==
    LET summary == IF Truthy(paper.tldr) THEN paper.tldr[1] ELSE paper.summary
        fields == << [name |-> "Authors", value |-> _author_string(paper), inline |-> FALSE],
                     [name |-> "Relevance", value |-> _relevance_string(paper), inline |-> TRUE],
                     [name |-> "Links", value |-> _link_block(paper), inline |-> TRUE] >>
        affiliations == _affiliations_block(paper)
    IN  [ title |-> _truncate(paper.title, _MAX_TITLE),
          url |-> "https://arxiv.org/abs/" \o paper.arxiv_id,
          description |-> _truncate(summary, _MAX_DESCRIPTION),
          color |-> _DEFAULT_COLOR,
          fields |-> IF AffiliationsShown(affiliations)
                     THEN Append(fields, [name |-> "Affiliations",
                                          value |-> affiliations[1],
                                          inline |-> FALSE])
                     ELSE fields ]

\* A faulty _batched whose slices stop one short: seq[start : start + size - 1].
_batched_short(seq, size) ==
    LET count == (Len(seq) + size - 1) \div size
    IN  [k \in 1..count |-> PySlice(seq, (k - 1) * size, (k - 1) * size + size - 1)]

\* _batched is a generator over range(0, len(seq), size); the chunks it
\* yields, in order.
_batched(seq, size) ==
    LET count == (Len(seq) + size - 1) \div size
    IN  [k \in 1..count |-> PySlice(seq, (k - 1) * size, (k - 1) * size + size)]

-----------------------------------------------------------------------------
(* Inputs.                                                                 *)

RECURSIVE Rep(_, _)
\* s * n
Rep(s, n) ==
    IF n = 0 THEN ""
    ELSE IF n % 2 = 0 THEN LET h == Rep(s, n \div 2) IN h \o h
    ELSE s \o Rep(s, n - 1)

\* A text of n characters, no two neighbours alike.
Fill(n) == PyPrefix(Rep("abcdefghij", n \div 10 + 1), n)

Affiliation(k) == "Institute " \o IntStr(k)

\* Twelve authors whose joined names pass _MAX_FIELD_VALUE.
ManyAuthors == [i \in 1..12 |-> [name |-> "Author " \o IntStr(i) \o " " \o Fill(90)]]

\* The records the dispatcher is run on.
Catalogue ==
    << [ arxiv_id |-> "2401.00001", arxiv_id_with_version |-> "2401.00001v1",
         title |-> "Attention", summary |-> "A short abstract.", tldr |-> None,
         authors |-> << [name |-> "Ann"], [name |-> "Bob"] >>,
         score |-> Some(7256), pdf_url |-> "https://arxiv.org/pdf/2401.00001",
         code_url |-> None, affiliations |-> << >> ],
       [ arxiv_id |-> "2401.00002", arxiv_id_with_version |-> "2401.00002v3",
         title |-> Fill(300), summary |-> "Unused abstract.", tldr |-> Some(Fill(2100)),
         authors |-> ManyAuthors,
         score |-> None, pdf_url |-> "https://arxiv.org/pdf/2401.00002",
         code_url |-> Some("https://github.com/a/b"),
         affiliations |-> [k \in 1..7 |-> Affiliation(k)] ],
       [ arxiv_id |-> "2401.00003", arxiv_id_with_version |-> "2401.00003v2",
         title |-> "Long link", summary |-> "Abstract three.", tldr |-> Some(""),
         authors |-> << [str |-> "Carol"] >>,
         score |-> Some(0), pdf_url |-> "https://arxiv.org/pdf/" \o Fill(1100),
         code_url |-> Some(""), affiliations |-> << "" >> ],
       [ arxiv_id |-> "2401.00004", arxiv_id_with_version |-> "2401.00004v1",
         title |-> Fill(256), summary |-> Fill(2048), tldr |-> None,
         authors |-> << >>,
         score |-> Some(10000), pdf_url |-> "https://arxiv.org/pdf/2401.00004",
         code_url |-> None, affiliations |-> [k \in 1..5 |-> Affiliation(k)] ] >>

\* The i-th record of a list that cycles through the catalogue from offset
\* off; its identifier is made its own.
PaperAt(i, off) ==
    LET base == Catalogue[((i + off) % Len(Catalogue)) + 1]
    IN  [base EXCEPT !.arxiv_id = "2401.1" \o IntStr(i)]

PaperLists ==
    { [i \in 1..n |-> PaperAt(i, off)] : n \in 0..MaxPapers, off \in 0..(Len(Catalogue) - 1) }

Urls == { None, Some(""), Some("https://discord.com/api/webhooks/1/token") }

\* What requests.post does: raise a RequestException, or return a response.
Outcomes ==
    { [kind |-> "exception", error |-> "ConnectionError"],
      [kind |-> "response", status_code |-> 204, text |-> ""],
      [kind |-> "response", status_code |-> 399, text |-> "redirect"],
      [kind |-> "response", status_code |-> 400, text |-> Fill(350)],
      [kind |-> "response", status_code |-> 500, text |-> "server error"] }

-----------------------------------------------------------------------------
(* The dispatcher.                                                         *)

\* A faulty merge that posts the payload alone.
PostDataBare(payload) == payload

\* data = {"allowed_mentions": {"parse": []}}; data.update(payload)
PostData(payload) == payload @@ [allowed_mentions |-> [parse |-> << >>]]

\* What _post logs for an outcome.
PostLog(outcome) ==
    IF outcome.kind = "exception"
    THEN << [level |-> "WARNING", message |-> "Failed to reach Discord webhook: {}",
             args |-> [exc |-> outcome.error]] >>
    ELSE IF outcome.status_code >= 400
    THEN << [level |-> "WARNING", message |-> "Discord webhook returned {}: {}",
             args |-> [status_code |-> outcome.status_code,
                       text |-> PyPrefix(outcome.text, BODY_PREFIX)]] >>
    ELSE << >>

\* requests.post did not deliver: it raised, or the status is an error.
Failed(outcome) ==
    \/ outcome.kind = "exception"
    \/ outcome.kind = "response" /\ outcome.status_code >= 400

\* A faulty _post that gives the run up after a failure.
_post_abort(payload, outcome, next) ==
    /\ posts' = Append(posts, [url |-> webhook_url[1], json |-> PostData(payload),
                               timeout |-> POST_TIMEOUT])
    /\ outcomes' = Append(outcomes, outcome)
    /\ log' = log \o PostLog(outcome)
    /\ exc' = exc
    /\ pc' = IF Failed(outcome) THEN "done" ELSE next

\* A faulty _post with no try/except: the RequestException leaves the call.
_post_uncaught(payload, outcome, next) ==
    /\ posts' = Append(posts, [url |-> webhook_url[1], json |-> PostData(payload),
                               timeout |-> POST_TIMEOUT])
    /\ outcomes' = Append(outcomes, outcome)
    /\ log' = IF outcome.kind = "exception" THEN log ELSE log \o PostLog(outcome)
    /\ exc' = IF outcome.kind = "exception" THEN "RequestException" ELSE exc
    /\ pc' = IF outcome.kind = "exception" THEN "done" ELSE next

\* One call of the nested _post, requests.post ending in outcome; the caller
\* goes on at next.
_post(payload, outcome, next) ==
    /\ posts' = Append(posts, [url |-> webhook_url[1], json |-> PostData(payload),
                               timeout |-> POST_TIMEOUT])
    /\ outcomes' = Append(outcomes, outcome)
    /\ log' = log \o PostLog(outcome)
    /\ exc' = exc
    /\ pc' = next

\* A faulty guard: `if webhook_url is None: return`.
CheckUrlNoneOnly ==
    /\ pc = "entry"
    /\ pc' = IF webhook_url # None THEN "papers" ELSE "done"
    /\ UNCHANGED <<dispatchVars, chunk_no, args, ret>>

\* if not webhook_url: return
CheckUrl ==
    /\ pc = "entry"
    /\ pc' = IF Truthy(webhook_url) THEN "papers" ELSE "done"
    /\ UNCHANGED <<dispatchVars, chunk_no, args, ret>>

\* A faulty empty-list branch: the failed notice is sent once more.
NoPapersRetry ==
    /\ pc = "papers"
    /\ Len(papers) = 0
    /\ \E outcome \in Outcomes :
           _post([content |-> "No new arXiv papers today.\nSee you tomorrow!"],
                 outcome, IF Failed(outcome) /\ Len(posts) = 0 THEN "papers" ELSE "done")
    /\ UNCHANGED <<papers, webhook_url, embeds, chunk_no, args, ret>>

\* if not papers: _post({"content": ...}); return
NoPapers ==
    /\ pc = "papers"
    /\ Len(papers) = 0
    /\ \E outcome \in Outcomes :
           _post([content |-> "No new arXiv papers today.\nSee you tomorrow!"],
                 outcome, "done")
    /\ UNCHANGED <<papers, webhook_url, embeds, chunk_no, args, ret>>

RECURSIVE EmbedsUpTo(_, _)
\* [_paper_to_embed(paper) for paper in list[:n]], built front to back.
EmbedsUpTo(list, n) ==
    IF n = 0 THEN << >>
    ELSE Append(EmbedsUpTo(list, n - 1), _paper_to_embed(list[n]))

\* embeds = [_paper_to_embed(paper) for paper in papers]
BuildEmbeds ==
    /\ pc = "papers"
    /\ Len(papers) > 0
    /\ embeds' = EmbedsUpTo(papers, Len(papers))
    /\ chunk_no' = 0
    /\ pc' = "loop"
    /\ UNCHANGED <<papers, webhook_url, posts, outcomes, log, exc, args, ret>>

\* One turn of: for chunk in _batched(embeds, 10): _post({"embeds": chunk})
SendChunk ==
    /\ pc = "loop"
    /\ chunk_no < Len(_batched(embeds, _MAX_EMBEDS_PER_REQUEST))
    /\ \E outcome \in Outcomes :
           _post([embeds |-> _batched(embeds, _MAX_EMBEDS_PER_REQUEST)[chunk_no + 1]],
                 outcome, "loop")
    /\ chunk_no' = chunk_no + 1
    /\ UNCHANGED <<papers, webhook_url, embeds, args, ret>>

\* A faulty summary that counts only the records of delivered batches.
LogSentCountsDelivered ==
    /\ pc = "loop"
    /\ chunk_no >= Len(_batched(embeds, _MAX_EMBEDS_PER_REQUEST))
    /\ log' = Append(log, [level |-> "INFO",
                           message |-> "Sent {} paper(s) to Discord webhook.",
                           args |-> [count |-> Len(papers)
                               - Cardinality({k \in 1..Len(outcomes) : Failed(outcomes[k])})
                                 * _MAX_EMBEDS_PER_REQUEST]])
    /\ pc' = "done"
    /\ UNCHANGED <<papers, webhook_url, embeds, chunk_no, posts, outcomes, exc, args, ret>>

\* The loop is exhausted: logger.info("Sent {} paper(s) ...", len(papers))
LogSent ==
    /\ pc = "loop"
    /\ chunk_no >= Len(_batched(embeds, _MAX_EMBEDS_PER_REQUEST))
    /\ log' = Append(log, [level |-> "INFO",
                           message |-> "Sent {} paper(s) to Discord webhook.",
                           args |-> [count |-> Len(papers)]])
    /\ pc' = "done"
    /\ UNCHANGED <<papers, webhook_url, embeds, chunk_no, posts, outcomes, exc, args, ret>>

\* A call of notify_discord(papers, webhook_url), at its first line.
Init ==
    /\ pc = "entry"
    /\ papers \in PaperLists
    /\ webhook_url \in Urls
    /\ embeds = << >>
    /\ chunk_no = 0
    /\ posts = << >>
    /\ outcomes = << >>
    /\ log = << >>
    /\ exc = "none"
    /\ args = None
    /\ ret = None

Next == CheckUrl \/ NoPapers \/ BuildEmbeds \/ SendChunk \/ LogSent

Spec == Init /\ [][Next]_vars

-----------------------------------------------------------------------------
(* The helpers run on their own inputs.                                    *)

Idle ==
    /\ papers = << >>
    /\ webhook_url = None
    /\ embeds = << >>
    /\ chunk_no = 0
    /\ posts = << >>
    /\ outcomes = << >>
    /\ log = << >>
    /\ exc = "none"

Texts == { Fill(n) : n \in 0..MaxTextLen }

Limits == (0 - MaxLimit)..MaxLimit

\* A call _truncate(text, limit) about to be made.
InitTruncate ==
    /\ pc = "call"
    /\ args \in [text : Texts, limit : Limits]
    /\ ret = None
    /\ Idle

CallTruncate ==
    /\ pc = "call"
    /\ ret' = Some(_truncate(args.text, args.limit))
    /\ pc' = "done"
    /\ UNCHANGED <<dispatchVars, chunk_no, args>>

NextTruncate == CallTruncate

SpecTruncate == InitTruncate /\ [][NextTruncate]_vars

Titles == { "", "Attention", Fill(_MAX_TITLE + 1) }

Summaries == { "A short abstract.", Fill(_MAX_DESCRIPTION + 1) }

Tldrs == { None, Some(""), Some("In short."), Some(Fill(_MAX_DESCRIPTION)) }

AuthorLists ==
    { << >>, << [name |-> "Ann"] >>, << [name |-> "Ann"], [str |-> "Bob"] >>, ManyAuthors }

Scores == { None, Some(0), Some(7256) }

CodeUrls == { None, Some(""), Some("https://github.com/a/b") }

AffiliationLists ==
    { [k \in 1..n |-> Affiliation(k)] : n \in 0..MaxAffiliations }
        \cup { << "" >>, << "", "" >>, << Fill(_MAX_FIELD_VALUE + 1) >> }

PaperRecords ==
    [ arxiv_id : {"2401.00001"}, arxiv_id_with_version : {"2401.00001v2"},
      title : Titles, summary : Summaries, tldr : Tldrs, authors : AuthorLists,
      score : Scores, pdf_url : {"https://arxiv.org/pdf/2401.00001"},
      code_url : CodeUrls, affiliations : AffiliationLists ]

\* A call _paper_to_embed(paper) about to be made.
InitEmbed ==
    /\ pc = "call"
    /\ args \in [paper : PaperRecords]
    /\ ret = None
    /\ Idle

CallPaperToEmbed ==
    /\ pc = "call"
    /\ ret' = Some(_paper_to_embed(args.paper))
    /\ pc' = "done"
    /\ UNCHANGED <<dispatchVars, chunk_no, args>>

NextEmbed == CallPaperToEmbed

SpecEmbed == InitEmbed /\ [][NextEmbed]_vars

-----------------------------------------------------------------------------
(* Properties.                                                             *)

\* A call that reaches the batching loop: a URL and at least one record.
Active == Truthy(webhook_url) /\ Len(papers) > 0

\* The embeds of the records, in input order.
ExpectedEmbeds == [i \in 1..Len(papers) |-> _paper_to_embed(papers[i])]

\* ceil(n / 10)
NumBatches == (Len(papers) + 9) \div 10

\* The k-th run of ten consecutive embeds (the last may be shorter).
ExpectedBatch(k) ==
    SubSeq(ExpectedEmbeds, 10 * (k - 1) + 1, Min(10 * k, Len(papers)))

RECURSIVE SentEmbeds(_)
\* The embeds lists of the first k POSTs, concatenated in the order sent.
SentEmbeds(k) ==
    IF k = 0 THEN << >> ELSE SentEmbeds(k - 1) \o posts[k].json.embeds

NoticeText == "No new arXiv papers today.\nSee you tomorrow!"

Warnings == { k \in 1..Len(log) : log[k].level = "WARNING" }

Infos == { k \in 1..Len(log) : log[k].level = "INFO" }

\* C1: with a URL and n >= 1 records, ceil(n/10) POSTs are issued, each with
\* 1..10 embeds (10 in every batch but the last), in batch order, and the
\* batches concatenated in the order sent are the records' embeds in input
\* order.
BatchesPartitionEmbeds ==
    Active =>
        /\ Len(posts) <= NumBatches
        /\ \A k \in 1..Len(posts) :
               /\ DOMAIN posts[k].json = {"embeds", "allowed_mentions"}
               /\ Len(posts[k].json.embeds) \in 1..10
               /\ k < NumBatches => Len(posts[k].json.embeds) = 10
        /\ Len(SentEmbeds(Len(posts))) <= Len(papers)
        /\ SentEmbeds(Len(posts)) =
               SubSeq(ExpectedEmbeds, 1, Min(Len(papers), Len(SentEmbeds(Len(posts)))))
        /\ pc = "done" =>
               /\ Len(posts) = NumBatches
               /\ SentEmbeds(Len(posts)) = ExpectedEmbeds

\* C1's case: 23 (or more) records went out as three batches, the last short.
ThreeBatchesSent ==
    /\ pc = "done"
    /\ Len(papers) >= 23
    /\ Len(posts) = 3
    /\ Len(posts[3].json.embeds) = Len(papers) - 20

\* The POSTs that carried batch j.
PostsOf(j) == { i \in 1..Len(posts) : posts[i].json.embeds = ExpectedBatch(j) }

\* C2: whatever the outcomes, a failed batch k does not stop the run: every
\* later batch is still POSTed, and every batch is POSTed exactly once.
FailedBatchDoesNotStopRun ==
    Active =>
        /\ Len(outcomes) = Len(posts)
        /\ \A j \in 1..NumBatches : Cardinality(PostsOf(j)) <= 1
        /\ \A k \in 1..Len(outcomes) :
               Failed(outcomes[k]) =>
                   /\ k < NumBatches /\ pc = "loop" => chunk_no >= k
                   /\ pc = "done" =>
                          \A j \in (k + 1)..NumBatches : Cardinality(PostsOf(j)) = 1
        /\ pc = "done" => \A j \in 1..NumBatches : Cardinality(PostsOf(j)) = 1

\* C2's case: batch 2 of 3 hit a transport failure, batch 1 an HTTP error,
\* and batch 3 was sent.
ThirdBatchSentAfterFailures ==
    /\ pc = "done"
    /\ Len(outcomes) = 3
    /\ outcomes[1].kind = "response" /\ outcomes[1].status_code >= 400
    /\ outcomes[2].kind = "exception"
    /\ Cardinality(PostsOf(3)) = 1

\* The steps the call has left at most: none once it has returned.
Rank ==
    CASE pc = "entry" -> NumBatches + 3
      [] pc = "papers" -> NumBatches + 2
      [] pc = "loop" -> NumBatches + 1 - chunk_no
      [] OTHER -> 0

\* C3: no exception ever leaves notify_discord and the call returns, for
\* every record list, URL and outcome of every POST: short of its return the
\* call always has a next step, every step brings the return nearer, and
\* each failure shows as one logged warning and nothing else.
NeverRaisesAlwaysReturns ==
    /\ [](exc = "none")
    /\ [](Cardinality(Warnings)
              = Cardinality({ k \in 1..Len(outcomes) : Failed(outcomes[k]) }))
    /\ [](pc = "done" \/ ENABLED Next)
    /\ [](Rank >= 0 /\ (Rank = 0 <=> pc = "done"))
    /\ [][Rank' < Rank]_vars

\* C3's case: the call returned normally although every POST failed.
ReturnedAfterEveryPostFailed ==
    /\ pc = "done"
    /\ exc = "none"
    /\ Len(outcomes) >= 2
    /\ \A k \in 1..Len(outcomes) : Failed(outcomes[k])
    /\ \E k \in 1..Len(outcomes) : outcomes[k].kind = "exception"

\* C4: with an empty or absent URL there is no POST, no log record and no
\* embed built, whatever the records; the call returns at once.
EmptyUrlIsNoOp ==
    ~Truthy(webhook_url) =>
        /\ posts = << >>
        /\ outcomes = << >>
        /\ log = << >>
        /\ embeds = << >>
        /\ pc \in {"entry", "done"}

\* C4's case: a call with records and the empty string as URL has returned.
ReturnedOnEmptyUrl ==
    /\ pc = "done"
    /\ webhook_url = Some("")
    /\ Len(papers) > 0

\* C5: with a URL and no records exactly one POST is issued, carrying the
\* notice as content plus allowed_mentions and no embeds; none follows,
\* whatever its outcome.
EmptyPapersSendOneNotice ==
    (Truthy(webhook_url) /\ Len(papers) = 0) =>
        /\ Len(posts) <= 1
        /\ \A k \in 1..Len(posts) :
               posts[k].json = [content |-> NoticeText,
                                allowed_mentions |-> [parse |-> << >>]]
        /\ pc = "done" => Len(posts) = 1

\* C5's case: the notice was sent, failed, and the call has returned.
NoticeSentAndFailed ==
    /\ pc = "done"
    /\ Len(papers) = 0
    /\ Len(posts) = 1
    /\ Failed(outcomes[1])

\* C6: every POST carries allowed_mentions {parse: []} and exactly one of
\* content (the notice) or embeds (at most 10); no payload overrides the
\* directive.
EveryPostSuppressesMentions ==
    \A k \in 1..Len(posts) :
        LET json == posts[k].json
        IN  /\ "allowed_mentions" \in DOMAIN json
            /\ json.allowed_mentions = [parse |-> << >>]
            /\ DOMAIN json \in { {"allowed_mentions", "content"},
                                 {"allowed_mentions", "embeds"} }
            /\ "content" \in DOMAIN json => json.content = NoticeText
            /\ "embeds" \in DOMAIN json => Len(json.embeds) \in 1..10

\* C6's case: three embed batches went out.
ThreePostsCarryDirective ==
    /\ Len(posts) = 3
    /\ \A k \in 1..3 : "embeds" \in DOMAIN posts[k].json

\* C7: every text of every embed sent is within its ceiling: title 256,
\* description 2048, every field value 1024.
EveryTextWithinCeiling ==
    \A k \in 1..Len(posts) :
        "embeds" \in DOMAIN posts[k].json =>
            \A i \in 1..Len(posts[k].json.embeds) :
                LET embed == posts[k].json.embeds[i]
                IN  /\ Len(embed.title) <= 256
                    /\ Len(embed.description) <= 2048
                    /\ \A f \in 1..Len(embed.fields) :
                           Len(embed.fields[f].value) <= 1024

\* The first n characters of text (none when n <= 0).
FirstChars(text, n) == SubSeq(text, 1, Min(Max(n, 0), Len(text)))

\* The stated truncation rule, for text T, limit L and result R.
TruncateRule(T, L, R) ==
    IF Len(T) <= L THEN R = T
    ELSE IF L <= 3 THEN R = FirstChars(T, L)
    ELSE /\ R = FirstChars(T, L - 3) \o "..."
         /\ Len(R) = L

\* C8 as stated: _truncate(T, L) follows the rule for every text T and every
\* integer limit L.
TruncateRuleEveryLimit ==
    ret # None => TruncateRule(args.text, args.limit, ret[1])

\* C8: _truncate(T, L) follows the rule for every text T and every limit
\* L >= 0; for L > 3 the result is at most L long.
TruncateRuleNonNegativeLimit ==
    (ret # None /\ args.limit >= 0) =>
        /\ TruncateRule(args.text, args.limit, ret[1])
        /\ args.limit > 3 => Len(ret[1]) <= args.limit

\* C8's case: a text longer than a limit above 3 was cut.
TruncateCut ==
    /\ ret # None
    /\ args.limit > 3
    /\ Len(args.text) > args.limit

\* The names of an embed's fields, in order.
FieldNames(embed) == [f \in 1..Len(embed.fields) |-> embed.fields[f].name]

\* C9 as stated: the fields are Authors, Relevance, Links, then Affiliations
\* if and only if the record has at least one affiliation.
AffiliationsFieldIffAnyAffiliation ==
    ret # None =>
        FieldNames(ret[1]) =
            IF Len(args.paper.affiliations) >= 1
            THEN << "Authors", "Relevance", "Links", "Affiliations" >>
            ELSE << "Authors", "Relevance", "Links" >>

\* C9: the fields are Authors, Relevance, Links, then Affiliations if and
\* only if the record has at least one affiliation and its affiliations are
\* not the single empty string.
AffiliationsFieldIffNonEmptyBlock ==
    ret # None =>
        FieldNames(ret[1]) =
            IF Len(args.paper.affiliations) >= 1 /\ args.paper.affiliations # << "" >>
            THEN << "Authors", "Relevance", "Links", "Affiliations" >>
            ELSE << "Authors", "Relevance", "Links" >>

\* C9's case: an embed was built from a record whose only affiliation is "".
EmbedOfEmptyAffiliation ==
    /\ ret # None
    /\ args.paper.affiliations = << "" >>

\* C10: with a URL and records, the summary is logged exactly once, as the
\* last thing, after the last batch's POST, with the count of input records
\* whatever the outcomes; never before or between the POSTs.
SummaryLoggedOnceAfterLastBatch ==
    Active =>
        /\ Cardinality(Infos) <= 1
        /\ Infos # {} =>
               /\ pc = "done"
               /\ Len(posts) = NumBatches
               /\ Len(outcomes) = NumBatches
               /\ Infos = {Len(log)}
               /\ log[Len(log)].args.count = Len(papers)
        /\ pc = "done" => Cardinality(Infos) = 1

\* C10's case: the summary was logged after a run in which a batch failed.
SummaryLoggedAfterFailedBatch ==
    /\ pc = "done"
    /\ Infos # {}
    /\ \E k \in 1..Len(outcomes) : Failed(outcomes[k])

====
